---- MODULE Spec2Model ----
(***************************************************************************)
(* Model of orient_ai.py (OrientAI): Program.score_for and                 *)
(* recommend_programs, the scoring function and the ranking routine.      *)
(*                                                                         *)
(* Python floats are modelled as exact rationals <<num, den>> in lowest    *)
(* terms with den > 0; binary64 rounding is outside the model.  A dict is  *)
(* a function on its key set, a list is a sequence, set(l) is the set of   *)
(* the elements of the sequence l.                                         *)
(* Of a Program the fields id, min_grades and tags are kept; name and      *)
(* domain are display strings no modelled line reads.                      *)
(***************************************************************************)
EXTENDS Integers, Sequences, FiniteSets

VARIABLES student, programs, top_k, op, arg, ret

vars == <<student, programs, top_k, op, arg, ret>>

(***************************************************************************)
(* Bounds of the model.                                                    *)
(***************************************************************************)
MaxCatalog == 3
MaxK == 3
MaxTags == 2
MaxInterests == 2

\* top_k: int = 3
DefaultTopK == 3

(***************************************************************************)
(* Float arithmetic, as exact rationals.                                   *)
(***************************************************************************)
Abs(n) == IF n < 0 THEN 0 - n ELSE n

RECURSIVE GCD(_, _)
GCD(a, b) == IF b = 0 THEN a ELSE GCD(b, a % b)

\* n / d for d > 0, in lowest terms
Rat(n, d) == LET g == GCD(Abs(n), d) IN <<n \div g, d \div g>>

FromInt(n) == <<n, 1>>

Zero == <<0, 1>>
One == <<1, 1>>

RAdd(a, b) == Rat(a[1] * b[2] + b[1] * a[2], a[2] * b[2])
RMul(a, b) == Rat(a[1] * b[1], a[2] * b[2])
\* a / b for b # 0
RDiv(a, b) == IF b[1] > 0 THEN Rat(a[1] * b[2], a[2] * b[1])
                          ELSE Rat(0 - a[1] * b[2], a[2] * (0 - b[1]))
RLe(a, b) == a[1] * b[2] <= b[1] * a[2]
RLt(a, b) == a[1] * b[2] < b[1] * a[2]
\* Python max(a, b) and min(a, b): the first argument wins a tie
RMax(a, b) == IF RLt(a, b) THEN b ELSE a
RMin(a, b) == IF RLt(b, a) THEN b ELSE a

(***************************************************************************)
(* Outcome of a call: a returned value or a raised exception.              *)
(***************************************************************************)
Return(v) == [raised |-> "None", value |-> v]
Raise(e) == [raised |-> e, value |-> Zero]

\* a / b of Python: ZeroDivisionError when b is zero
TrueDiv(a, b) == IF b[1] = 0 THEN Raise("ZeroDivisionError") ELSE Return(RDiv(a, b))

\* set(l) of a list l
Set(l) == {l[i] : i \in DOMAIN l}

\* d.get(k, default)
DictGet(d, k, default) == IF k \in DOMAIN d THEN d[k] ELSE default

(***************************************************************************)
(* Program.score_for                                                       *)
(***************************************************************************)
\* normalized = 0.5 + diff / 10.0, not clamped
NormalizedUnclamped(student_grade, required_grade) ==
    LET diff == student_grade - required_grade
    IN  RAdd(<<1, 2>>, RDiv(FromInt(diff), FromInt(10)))

\* diff = student_grade - required_grade
\* normalized = max(0.0, min(1.0, 0.5 + diff / 10.0))
Normalized(student_grade, required_grade) ==
    LET diff == student_grade - required_grade
        normalized == RAdd(<<1, 2>>, RDiv(FromInt(diff), FromInt(10)))
    IN  RMax(Zero, RMin(One, normalized))

\* the list scores, one entry per item of self.min_grades, keyed here by subject
Scores(self, stud) ==
    [subject \in DOMAIN self.min_grades |->
        Normalized(DictGet(stud.grades, subject, 0), self.min_grades[subject])]

\* sum(scores)
RECURSIVE SumOver(_, _)
SumOver(scores, keys) ==
    IF keys = {} THEN Zero
    ELSE LET k == CHOOSE x \in keys : TRUE
         IN  RAdd(scores[k], SumOver(scores, keys \ {k}))

\* grade_score
grade_score(self, stud) ==
    IF DOMAIN self.min_grades = {}
    THEN Return(Zero)
    ELSE LET scores == Scores(self, stud)
         IN  TrueDiv(SumOver(scores, DOMAIN scores), FromInt(Cardinality(DOMAIN scores)))

\* interest_score computed without the test of self.tags
interest_score_unguarded(self, stud) ==
    LET common_tags == Set(self.tags) \cap Set(stud.interests)
    IN  TrueDiv(FromInt(Cardinality(common_tags)), FromInt(Len(self.tags)))

\* interest_score
interest_score(self, stud) ==
    LET common_tags == Set(self.tags) \cap Set(stud.interests)
    IN  IF self.tags # <<>>
        THEN TrueDiv(FromInt(Cardinality(common_tags)), FromInt(Len(self.tags)))
        ELSE Return(Zero)

\* aspiration_score
aspiration_score(self, stud) ==
    LET common_aspirations == Set(self.tags) \cap Set(stud.aspirations)
    IN  IF common_aspirations # {} THEN One ELSE Zero

\* final_score with the weights 0.5, 0.25, 0.25
final_score_misweighted(grade, interest, aspiration) ==
    RAdd(RAdd(RMul(<<1, 2>>, grade), RMul(<<1, 4>>, interest)),
         RMul(<<1, 4>>, aspiration))

\* final_score = 0.6 * grade_score + 0.25 * interest_score + 0.15 * aspiration_score
final_score(grade, interest, aspiration) ==
    RAdd(RAdd(RMul(<<6, 10>>, grade), RMul(<<25, 100>>, interest)),
         RMul(<<15, 100>>, aspiration))

\* The call self.score_for(student): its outcome and its local variables at
\* the return.  An exception raised by a division propagates to the caller.
score_for(self, stud) ==
    LET g == grade_score(self, stud)
        i == interest_score(self, stud)
        a == aspiration_score(self, stud)
        locals == [grade_score |-> g.value, interest_score |-> i.value,
                   aspiration_score |-> a]
    IN  IF g.raised # "None" THEN [raised |-> g.raised, value |-> Zero, locals |-> locals]
        ELSE IF i.raised # "None"
        THEN [raised |-> i.raised, value |-> Zero, locals |-> locals]
        ELSE [raised |-> "None", value |-> final_score(g.value, i.value, a),
              locals |-> locals]

(***************************************************************************)
(* recommend_programs                                                      *)
(***************************************************************************)
Min(a, b) == IF a <= b THEN a ELSE b
Max(a, b) == IF a >= b THEN a ELSE b

Front(l) == SubSeq(l, 1, Len(l) - 1)
Last(l) == l[Len(l)]
Reverse(l) == [i \in 1..Len(l) |-> l[Len(l) + 1 - i]]

\* scored built without the first program of the catalog
BuildScoredSkipFirst(stud, progs) ==
    LET rest == Tail(progs)
        calls == [i \in 1..Len(rest) |-> score_for(rest[i], stud)]
        failed == {i \in 1..Len(rest) : calls[i].raised # "None"}
    IN  IF progs = <<>> THEN Return(<<>>)
        ELSE IF failed # {}
        THEN Raise(calls[CHOOSE i \in failed : \A j \in failed : i <= j].raised)
        ELSE Return([i \in 1..Len(rest) |-> <<rest[i], calls[i].value>>])

\* scored = []; for p in programs: s = p.score_for(student); scored.append((p, s))
\* The first call that raises ends the loop and the exception propagates.
BuildScored(stud, progs) ==
    LET calls == [i \in 1..Len(progs) |-> score_for(progs[i], stud)]
        failed == {i \in 1..Len(progs) : calls[i].raised # "None"}
    IN  IF failed # {}
        THEN Raise(calls[CHOOSE i \in failed : \A j \in failed : i <= j].raised)
        ELSE Return([i \in 1..Len(progs) |-> <<progs[i], calls[i].value>>])

\* Stable insertion of x into the ascending list l: after every element whose
\* key x[1] of the lambda (here the second component) is not greater.
RECURSIVE InsertAsc(_, _)
InsertAsc(l, x) ==
    IF l = <<>> THEN <<x>>
    ELSE IF RLt(x[2], Last(l)[2]) THEN Append(InsertAsc(Front(l), x), Last(l))
    ELSE Append(l, x)

\* The stable ascending sort by key that list.sort performs
RECURSIVE StableSortAsc(_)
StableSortAsc(l) ==
    IF l = <<>> THEN <<>> ELSE InsertAsc(StableSortAsc(Front(l)), Last(l))

\* sorted ascending and then reversed: equal keys come out in reverse order
SortDescUnstable(scored) == Reverse(StableSortAsc(scored))

\* sorted without reverse=True
SortAscending(scored) == StableSortAsc(scored)

\* scored.sort(key=lambda x: x[1], reverse=True): list.sort reverses the list,
\* sorts it stably in ascending key order and reverses it again, so that equal
\* keys keep their original order.
SortDesc(scored) == Reverse(StableSortAsc(Reverse(scored)))

\* l[:k + 1]
SliceOneMore(l, k) ==
    LET stop == IF k + 1 < 0 THEN Max(Len(l) + k + 1, 0) ELSE Min(k + 1, Len(l))
    IN  SubSeq(l, 1, stop)

\* l[:k]: a negative k counts from the end of the list
Slice(l, k) ==
    LET stop == IF k < 0 THEN Max(Len(l) + k, 0) ELSE Min(k, Len(l))
    IN  SubSeq(l, 1, stop)

\* recommend_programs that sorts the caller's list in place
recommend_programs_inplace(stud, progs, k) ==
    LET scored == BuildScored(stud, progs)
        sorted == SortDesc(scored.value)
    IN  IF scored.raised # "None"
        THEN [ret |-> scored, student |-> stud, programs |-> progs]
        ELSE [ret |-> Return(Slice(sorted, k)), student |-> stud,
              programs |-> [i \in 1..Len(sorted) |-> sorted[i][1]]]

\* The call recommend_programs(student, programs, top_k): its outcome, and the
\* objects its arguments refer to as they are when it returns.  The function
\* sorts the list scored it built itself and assigns to no argument.
recommend_programs(stud, progs, k) ==
    LET scored == BuildScored(stud, progs)
    IN  IF scored.raised # "None"
        THEN [ret |-> scored, student |-> stud, programs |-> progs]
        ELSE [ret |-> Return(Slice(SortDesc(scored.value), k)), student |-> stud,
              programs |-> progs]

(***************************************************************************)
(* build_example_programs                                                  *)
(***************************************************************************)
ing_info ==
    [id |-> "ing_info",
     min_grades |-> [maths |-> 14, physique |-> 12, francais |-> 10],
     tags |-> <<"informatique", "programmation", "algorithmes",
                "intelligence artificielle">>]

medecine ==
    [id |-> "medecine",
     min_grades |-> [maths |-> 12, physique |-> 13, svt |-> 15, francais |-> 12],
     tags |-> <<"santé", "biologie", "contact humain", "hôpital">>]

eco_gestion ==
    [id |-> "eco_gestion",
     min_grades |-> [maths |-> 11, francais |-> 12, philo |-> 10],
     tags |-> <<"économie", "management", "entrepreneuriat", "finance">>]

lettres ==
    [id |-> "lettres",
     min_grades |-> [francais |-> 14, philo |-> 13, langues |-> 14],
     tags |-> <<"littérature", "philosophie", "langues", "écriture">>]

build_example_programs == <<ing_info, medecine, eco_gestion, lettres>>

(***************************************************************************)
(* Inputs                                                                  *)
(***************************************************************************)
\* sequences over S of length at most n
BoundedSeq(S, n) == UNION {[1..m -> S] : m \in 0..n}

\* dicts with keys among K and values among V
Dicts(K, V) == UNION {[D -> V] : D \in SUBSET K}

\* a Program with no minimum grade and no tag
EmptyProgram == [id |-> "vide", min_grades |-> <<>>, tags |-> <<>>]

\* the learner of the worked example
ExampleStudent ==
    [name |-> "exemple",
     grades |-> [maths |-> 16, physique |-> 14, francais |-> 12],
     interests |-> <<"informatique", "algorithmes">>,
     aspirations |-> <<"ingénieur">>]

\* Catalogs: lists without repetition of the example programs and the empty one
Pool == Set(build_example_programs) \cup {EmptyProgram}

Catalogs ==
    {c \in BoundedSeq(Pool, MaxCatalog) :
        \A i, j \in DOMAIN c : i # j => c[i] # c[j]}

TopKs == (0 - MaxK)..MaxK

CatalogStudents ==
    {[name |-> "eleve", grades |-> g, interests |-> i, aspirations |-> a] :
        g \in {<<>>,
               [maths |-> 16, physique |-> 14, francais |-> 12],
               [maths |-> 12, physique |-> 13, svt |-> 15, francais |-> 12,
                philo |-> 10, langues |-> 14]},
        i \in {<<>>, <<"informatique", "algorithmes">>},
        a \in {<<"ingénieur">>, <<"santé">>}}

\* Profiles and programs for the scoring function: every small combination
GenSubjects == {"maths", "francais"}
RequiredValues == {10, 14}
GradeValues == {5, 10, 19}
Keywords == {"informatique", "algorithmes"}

GenPrograms ==
    {[id |-> "gen", min_grades |-> m, tags |-> t] :
        m \in Dicts(GenSubjects, RequiredValues), t \in BoundedSeq(Keywords, MaxTags)}

GenStudents ==
    {[name |-> "eleve", grades |-> g, interests |-> i, aspirations |-> a] :
        g \in Dicts(GenSubjects, GradeValues),
        i \in BoundedSeq(Keywords, MaxInterests),
        a \in {<<>>, <<"informatique">>, <<"ingénieur">>}}

(***************************************************************************)
(* State machine: a caller holding a profile, a catalog and top_k makes    *)
(* one call, as main does: score_for on one catalog entry or               *)
(* recommend_programs on the catalog.  op, arg and ret record the call,    *)
(* its argument and its outcome.                                           *)
(***************************************************************************)
NoCall == /\ op = "none"
          /\ arg = 0
          /\ ret = Return(<<>>)

Init == /\ student \in CatalogStudents
        /\ programs \in Catalogs
        /\ top_k \in TopKs
        /\ NoCall

InitScore == /\ student \in GenStudents \cup {ExampleStudent}
             /\ programs \in {<<p>> : p \in GenPrograms \cup {ing_info}}
             /\ top_k = DefaultTopK
             /\ NoCall

CallScoreFor ==
    \E i \in DOMAIN programs :
        /\ op = "none"
        /\ op' = "score_for"
        /\ arg' = i
        /\ ret' = score_for(programs[i], student)
        /\ UNCHANGED <<student, programs, top_k>>

CallRecommendPrograms ==
    LET call == recommend_programs(student, programs, top_k)
    IN  /\ op = "none"
        /\ op' = "recommend_programs"
        /\ arg' = 0
        /\ ret' = call.ret
        /\ student' = call.student
        /\ programs' = call.programs
        /\ UNCHANGED top_k

Next == CallScoreFor \/ CallRecommendPrograms

Spec == Init /\ [][Next]_vars

SpecScore == InitScore /\ [][Next]_vars

(***************************************************************************)
(* Properties                                                              *)
(***************************************************************************)
Recommended == op = "recommend_programs"
Scored == op = "score_for"

\* position in the caller's catalog of a program (catalog entries are distinct)
Pos(p) == CHOOSE i \in DOMAIN programs : programs[i] = p

\* the score of the i-th returned pair
ScoreAt(i) == ret.value[i][2]

\* C1: recommend_programs returns an empty sequence whenever top_k <= 0 or
\* the catalog is empty.
EmptyWhenNonPositiveOrEmptyCatalog ==
    (Recommended /\ (top_k <= 0 \/ programs = <<>>))
        => (ret.raised = "None" /\ ret.value = <<>>)

\* C2: score_for returns a value, without raising, and the value lies in the
\* closed interval [0, 1], empty min_grades, tags, grades, interests and
\* aspirations included.
RangeInvariant ==
    Scored => /\ ret.raised = "None"
              /\ RLe(Zero, ret.value)
              /\ RLe(ret.value, One)

RangeWitness ==
    /\ Scored
    /\ DOMAIN programs[arg].min_grades = {}
    /\ programs[arg].tags = <<>>
    /\ DOMAIN student.grades = {}
    /\ student.interests = <<>>
    /\ student.aspirations = <<>>
    /\ ret.raised = "None"
    /\ ret.value = Zero

\* C3: two returned entries with equal scores appear in the result in the
\* order they have in the input catalog.
Stability ==
    Recommended =>
        \A i, j \in DOMAIN ret.value :
            (i < j /\ ScoreAt(i) = ScoreAt(j))
                => Pos(ret.value[i][1]) < Pos(ret.value[j][1])

StabilityWitness ==
    /\ Recommended
    /\ \E i, j, m \in DOMAIN ret.value :
          /\ i < j
          /\ ScoreAt(i) = ScoreAt(j)
          /\ ret.value[i][1] # ret.value[j][1]
          /\ ScoreAt(m) # ScoreAt(i)
          /\ Pos(ret.value[m][1]) < Pos(ret.value[i][1])

\* C4: for top_k >= 0 the result has exactly min(top_k, len(catalog)) pairs.
BoundLaw ==
    (Recommended /\ top_k >= 0)
        => /\ ret.raised = "None"
           /\ Len(ret.value) = Min(top_k, Len(programs))

BoundWitness ==
    /\ Recommended
    /\ Len(programs) >= 2
    /\ top_k > Len(programs)
    /\ Len(ret.value) = Len(programs)

\* C5: the result is sorted by score in non-increasing order.
DescendingOrder ==
    Recommended =>
        \A i \in DOMAIN ret.value :
            (i + 1) \in DOMAIN ret.value => RLe(ScoreAt(i + 1), ScoreAt(i))

DescendingWitness ==
    /\ Recommended
    /\ Len(ret.value) >= 3
    /\ RLt(ScoreAt(2), ScoreAt(1))
    /\ RLt(ScoreAt(3), ScoreAt(2))
    /\ Pos(ret.value[3][1]) < Pos(ret.value[1][1])

\* C6: for top_k >= 0 every returned pair is a catalog entry with its own
\* score, and no entry left out scores strictly more than a returned one.
TopKBest ==
    (Recommended /\ top_k >= 0) =>
        LET returned == {ret.value[i][1] : i \in DOMAIN ret.value}
        IN  /\ \A i \in DOMAIN ret.value :
                  /\ ret.value[i][1] \in Set(programs)
                  /\ ScoreAt(i) = score_for(ret.value[i][1], student).value
            /\ \A p \in Set(programs) \ returned :
                  \A i \in DOMAIN ret.value :
                      ~ RLt(ScoreAt(i), score_for(p, student).value)

TopKBestWitness ==
    /\ Recommended
    /\ top_k >= 1
    /\ Len(ret.value) = top_k
    /\ \E p \in Set(programs) :
          /\ \A i \in DOMAIN ret.value : ret.value[i][1] # p
          /\ Pos(p) = 1
          /\ RLt(score_for(p, student).value, ScoreAt(Len(ret.value)))

\* C7: score_for returns 0.60 * grade_score + 0.25 * interest_score
\* + 0.15 * aspiration_score, the aspiration score being 1 when some tag of
\* the program is among the aspirations and 0 otherwise; ing_info scored for
\* the learner of the worked example yields 0.545.
WeightedSum ==
    Scored =>
        LET p == programs[arg]
            l == ret.locals
            binary == IF \E t \in DOMAIN p.tags : \E a \in DOMAIN student.aspirations :
                             p.tags[t] = student.aspirations[a]
                      THEN One ELSE Zero
            weighted == RAdd(RMul(Rat(60, 100), l.grade_score),
                             RAdd(RMul(Rat(25, 100), l.interest_score),
                                  RMul(Rat(15, 100), binary)))
        IN  /\ ret.raised = "None"
            /\ l.aspiration_score = binary
            /\ ret.value = weighted
            /\ (p = ing_info /\ student = ExampleStudent) => ret.value = Rat(545, 1000)

WorkedExampleWitness ==
    /\ Scored
    /\ programs[arg] = ing_info
    /\ student = ExampleStudent
    /\ ret.locals.grade_score = Rat(7, 10)
    /\ ret.locals.interest_score = Rat(1, 2)
    /\ ret.locals.aspiration_score = Zero
    /\ ret.value = Rat(545, 1000)

\* C8: scoring and ranking are read-only: no call changes the profile, any
\* program, or the contents and order of the caller's catalog.
ReadOnly == [][student' = student /\ programs' = programs]_vars

ReadOnlyWitness ==
    /\ Recommended
    /\ Len(programs) >= 2
    /\ Len(ret.value) = Len(programs)
    /\ ret.value[1][1] = programs[Len(programs)]
    /\ RLt(ScoreAt(2), ScoreAt(1))

\* C9: when tags is non-empty the interest component is the fraction of the
\* program's tags that are among the profile's interests, hence 1 when every
\* tag is; when tags is empty it is 0.  For every list of tags.
InterestFraction ==
    Scored =>
        LET T == Set(programs[arg].tags)
            I == Set(student.interests)
            interest == ret.locals.interest_score
        IN  IF programs[arg].tags # <<>>
            THEN /\ interest = Rat(Cardinality(T \cap I), Cardinality(T))
                 /\ (T \subseteq I) => interest = One
            ELSE interest = Zero

\* sum over the subjects S of the term, in tenths, the claim gives each subject
RECURSIVE ClaimedTenths(_, _, _)
ClaimedTenths(S, required, grades) ==
    IF S = {} THEN 0
    ELSE LET subject == CHOOSE x \in S : TRUE
             g == IF subject \in DOMAIN grades THEN grades[subject] ELSE 0
             diff == g - required[subject]
             term == IF diff >= 5 THEN 10 ELSE IF diff <= 0 - 5 THEN 0 ELSE 5 + diff
         IN  term + ClaimedTenths(S \ {subject}, required, grades)

\* C10: the grade component is the mean over min_grades of
\* clamp(0.5 + (g - required) / 10, 0, 1), g being 0 for a subject without a
\* grade: 1 from a surplus of 5 on, 0 from a deficit of 5 on, 0.5 when the
\* requirement is met exactly; 0 when min_grades is empty.
GradeMean ==
    Scored =>
        LET required == programs[arg].min_grades
            S == DOMAIN required
        IN  ret.locals.grade_score =
                IF S = {} THEN Zero
                ELSE Rat(ClaimedTenths(S, required, student.grades), 10 * Cardinality(S))

GradeMeanWitness ==
    /\ Scored
    /\ \E missing, surplus \in DOMAIN programs[arg].min_grades :
          /\ missing \notin DOMAIN student.grades
          /\ surplus \in DOMAIN student.grades
          /\ student.grades[surplus] - programs[arg].min_grades[surplus] > 5
    /\ ret.locals.grade_score = Rat(1, 2)

====
